---- MODULE Spec2Model ----
(***************************************************************************)
(* Model of src/main.py: the roster extractor (replace_empty_line,         *)
(* remove_number_honorific, parse) and the encoding resolver               *)
(* (det_encoding).                                                         *)
(*                                                                         *)
(* A Python str is a sequence of characters; a character is a short ASCII  *)
(* string naming it.  The non-ASCII characters of the source are named:    *)
(*   BAN    U+756A  the number-marker glyph                                *)
(*   Z0..Z9 U+FF10..U+FF19 full-width digits                               *)
(*   ZSP    U+3000  full-width space                                       *)
(*   GI IN  U+8B70 U+54E1  the "member" suffix                             *)
(*   SA N   U+3055 U+3093  the polite suffix (san)                         *)
(*   KU N   U+304F U+3093  the informal suffix in hiragana (kun)           *)
(*   KUN    U+541B  the informal suffix in kanji                           *)
(*   SHUTSU SEKI U+51FA U+5E2D  the attendance keyword                     *)
(*   HBAR   U+2015  horizontal bar,  FDASH U+FF0D full-width hyphen-minus  *)
(*   SATO1 SATO2 U+4F50 U+85E4  the two characters of the name Sato        *)
(***************************************************************************)
EXTENDS Integers, Sequences, FiniteSets, TLC

VARIABLES
    pc,             \* position of the running function
    lines,          \* replace_empty_line: the argument
    once,           \* replace_empty_line(lines)
    twice,          \* replace_empty_line(replace_empty_line(lines))
    person_string,  \* remove_number_honorific: the argument
    record,         \* remove_number_honorific: the returned dict
    html_string,    \* parse: the argument
    rows,           \* parse: html_string.split('\n')[1:] after reformatting
    idx,            \* parse: 1-based position of the for loop in rows
    member_list,    \* parse: the fragments collected by the loop
    result,         \* parse: the returned list of dicts
    chardet_label,  \* det_encoding: detector.result['encoding']
    nkf_label,      \* det_encoding: nkf.guess(...)
    file_path,      \* det_encoding: the argument
    ret,            \* det_encoding: the returned string
    exc,            \* the arguments of the exception raised, <<>> if none
    error,          \* the type of the exception raised, "" if none
    stderr          \* what was written to sys.stderr, in order

vars == <<pc, lines, once, twice, person_string, record, html_string, rows, idx,
          member_list, result, chardet_label, nkf_label, file_path, ret, exc,
          error, stderr>>

----------------------------------------------------------------------------
(* Characters *)

CR == "CR"
LF == "LF"
BAN == "BAN"
ZSP == "ZSP"
SP == " "
BAR == "|"

AsciiDigits == {"0", "1", "2", "3", "4", "5", "6", "7", "8", "9"}
ZenDigits == {"Z0", "Z1", "Z2", "Z3", "Z4", "Z5", "Z6", "Z7", "Z8", "Z9"}

\* The character class [0-9|０-９] of the number-marker pattern: inside a
\* class the bar is a literal character, not an alternation.
NumberClass == AsciiDigits \cup {BAR} \cup ZenDigits

----------------------------------------------------------------------------
(* Python str helpers *)

Min(a, b) == IF a < b THEN a ELSE b
Max(a, b) == IF a > b THEN a ELSE b

\* A Python slice bound i (0-based, negative counts from the end) clamped
\* to 0..n.
Clamp(i, n) == IF i < 0 THEN Max(i + n, 0) ELSE Min(i, n)

\* s[:p]
SliceTo(s, p) == SubSeq(s, 1, Clamp(p, Len(s)))

\* s[p:]
SliceFrom(s, p) == SubSeq(s, Clamp(p, Len(s)) + 1, Len(s))

Drop(s, k) == SubSeq(s, k + 1, Len(s))

\* s.startswith(t)
StartsWith(s, t) == Len(s) >= Len(t) /\ SubSeq(s, 1, Len(t)) = t

\* s.endswith(t)
EndsWith(s, t) == Len(s) >= Len(t) /\ SubSeq(s, Len(s) - Len(t) + 1, Len(s)) = t

\* c in s
Contains(s, c) == \E i \in 1..Len(s) : s[i] = c

\* s.count(c)
Count(s, c) == Cardinality({i \in 1..Len(s) : s[i] = c})

\* s.rfind(c): the 0-based index of the last c, -1 when there is none
RFind(s, c) ==
    IF Contains(s, c)
    THEN (CHOOSE i \in 1..Len(s) : s[i] = c /\ \A j \in (i + 1)..Len(s) : s[j] # c) - 1
    ELSE -1

\* s.replace(c, '')
RECURSIVE Remove(_, _)
Remove(s, c) ==
    IF s = <<>> THEN <<>>
    ELSE IF Head(s) = c THEN Remove(Tail(s), c)
    ELSE <<Head(s)>> \o Remove(Tail(s), c)

\* s.split('\n')
RECURSIVE SplitLF(_)
SplitLF(s) ==
    IF ~Contains(s, LF) THEN <<s>>
    ELSE LET k == CHOOSE i \in 1..Len(s) : s[i] = LF /\ \A j \in 1..(i - 1) : s[j] # LF
         IN  <<SubSeq(s, 1, k - 1)>> \o SplitLF(Drop(s, k))

----------------------------------------------------------------------------
(* replace_empty_line *)

\* lines.replace('\r\n', '\n'): one left-to-right pass over non-overlapping
\* occurrences
RECURSIVE ReplaceCRLF(_)
ReplaceCRLF(s) ==
    IF s = <<>> THEN <<>>
    ELSE IF StartsWith(s, <<CR, LF>>) THEN <<LF>> \o ReplaceCRLF(Drop(s, 2))
    ELSE <<Head(s)>> \o ReplaceCRLF(Tail(s))

\* re.sub(r'\n{2,}', '\n', lines)
RECURSIVE CollapseLF(_)
CollapseLF(s) ==
    IF s = <<>> THEN <<>>
    ELSE IF StartsWith(s, <<LF, LF>>) THEN CollapseLF(Tail(s))
    ELSE <<Head(s)>> \o CollapseLF(Tail(s))

replace_empty_line(s) == CollapseLF(ReplaceCRLF(s))

----------------------------------------------------------------------------
(* remove_number_honorific *)

\* The (start, end) pairs, 1-based and inclusive, of the substrings of s that
\* match [0-9|０-９]+番: end is the position of the marker glyph.
NumberMarkerMatches(s) ==
    {m \in (1..Len(s)) \X (1..Len(s)) :
        /\ m[1] < m[2]
        /\ s[m[2]] = BAN
        /\ \A k \in m[1]..(m[2] - 1) : s[k] \in NumberClass}

\* re.search(...) is not None
HasNumberMarker(s) == NumberMarkerMatches(s) # {}

\* re.search returns the leftmost match; the class excludes the marker glyph,
\* so a start has one end.
NumberMarkerSearch(s) ==
    CHOOSE m \in NumberMarkerMatches(s) :
        \A o \in NumberMarkerMatches(s) : m[1] <= o[1]

\* mojimoji.zen_to_han on one character: full-width digits and the full-width
\* space have a half-width form, every other character of the model is kept.
ZenToHanChar(c) ==
    CASE c = "Z0" -> "0" [] c = "Z1" -> "1" [] c = "Z2" -> "2" [] c = "Z3" -> "3"
      [] c = "Z4" -> "4" [] c = "Z5" -> "5" [] c = "Z6" -> "6" [] c = "Z7" -> "7"
      [] c = "Z8" -> "8" [] c = "Z9" -> "9" [] c = ZSP -> SP
      [] OTHER -> c

zen_to_han(s) == [i \in 1..Len(s) |-> ZenToHanChar(s[i])]

\* lines 32-35: at most one honorific is removed
StripHonorific(name) ==
    IF EndsWith(name, <<"GI", "IN">>) \/ EndsWith(name, <<"SA", "N">>)
    THEN SubSeq(name, 1, Len(name) - 2)
    ELSE IF EndsWith(name, <<"KUN">>)
    THEN SubSeq(name, 1, Len(name) - 1)
    ELSE name

\* The dict returned for a string that has a number-marker match.
remove_number_honorific(s) ==
    LET m == NumberMarkerSearch(s)
    IN  [number |-> zen_to_han(SubSeq(s, m[1], m[2] - 1)),
         name |-> StripHonorific(Drop(s, m[2]))]

----------------------------------------------------------------------------
(* parse *)

Spaces == {SP, ZSP}

BrTags == {<<"<", "b", "r", ">">>, <<"<", "B", "R", ">">>,
           <<"<", "b", "r", SP, "/", ">">>, <<"<", "B", "R", SP, "/", ">">>}

\* the number of leading characters of s that are ASCII or full-width spaces
RECURSIVE LeadingSpaces(_)
LeadingSpaces(s) ==
    IF s # <<>> /\ Head(s) \in Spaces THEN 1 + LeadingSpaces(Tail(s)) ELSE 0

\* re.sub(br_line_pattern, '', html_string): a break tag goes together with
\* the spaces around it
RECURSIVE StripBr(_)
StripBr(s) ==
    IF s = <<>> THEN <<>>
    ELSE LET t == Drop(s, LeadingSpaces(s))
         IN  IF \E tag \in BrTags : StartsWith(t, tag)
             THEN LET tag == CHOOSE g \in BrTags : StartsWith(t, g)
                      u == Drop(t, Len(tag))
                  IN  StripBr(Drop(u, LeadingSpaces(u)))
             ELSE <<Head(s)>> \o StripBr(Tail(s))

\* lines 50-52
Reformat(s) == replace_empty_line(StripBr(s))

\* re.search(r'出席.*', s) is not None
HasHeader(s) == \E i \in 1..(Len(s) - 1) : s[i] = "SHUTSU" /\ s[i + 1] = "SEKI"

\* html_string[re_res.start():]
FromHeader(s) ==
    LET i == CHOOSE k \in 1..(Len(s) - 1) :
                 /\ s[k] = "SHUTSU" /\ s[k + 1] = "SEKI"
                 /\ \A j \in 1..(k - 1) : ~(s[j] = "SHUTSU" /\ s[j + 1] = "SEKI")
    IN  Drop(s, i - 1)

\* re.fullmatch(r'　*(―|－)+', row)
IsRule(row) ==
    LET k == IF row = <<>> THEN 0
             ELSE Cardinality({i \in 1..Len(row) : \A j \in 1..i : row[j] = ZSP})
    IN  /\ k < Len(row)
        /\ \A i \in (k + 1)..Len(row) : row[i] \in {"HBAR", "FDASH"}

\* Variant of line 60: only a horizontal rule ends the iteration.
HaltsOnRuleOnly(row) == IsRule(row)

\* line 60: the row ends the iteration
Halts(row) == ~Contains(row, BAN) \/ IsRule(row)

\* line 63
ban_count(row) == Count(row, BAN)

\* line 65
pivot(row) == RFind(row, BAN) - 2

\* Variant of lines 66-67: the character at the pivot goes to neither fragment.
SplitRowDropsPivot(row) == <<SliceTo(row, pivot(row)), SliceFrom(row, pivot(row) + 1)>>

\* lines 66-67: the two fragments of a row with two marker glyphs
SplitRow(row) == <<SliceTo(row, pivot(row)), SliceFrom(row, pivot(row))>>

\* line 74: member.replace('　', '').replace(' ', '')
StripSpaces(s) == Remove(Remove(s, ZSP), SP)

----------------------------------------------------------------------------
(* det_encoding *)

\* detector.result['encoding'] of an input chardet cannot classify
None == "<None>"

\* Labels as the two detectors spell them.
ChardetLabels == {"SHIFT_JIS", "CP932", "utf-8", "ascii", "EUC-JP", None}
NkfLabels == {"Shift_JIS", "CP932", "UTF-8", "ASCII", "EUC-JP", "BINARY"}

\* str.lower()
Lower(l) ==
    CASE l \in {"SHIFT_JIS", "Shift_JIS"} -> "shift_jis"
      [] l = "CP932" -> "cp932"
      [] l \in {"UTF-8", "utf-8"} -> "utf-8"
      [] l \in {"ASCII", "ascii"} -> "ascii"
      [] l = "EUC-JP" -> "euc-jp"
      [] l = "BINARY" -> "binary"
      [] OTHER -> l

\* line 101
ConflictWarning(c, n) == [kind |-> "conflict char_codes", first |-> c, second |-> n]

\* Variants of line 102: the shift_jis spelling counted as well; only the
\* first detector consulted.
PrefersCP932OrShiftJis(c, n) == {c, n} \cap {"cp932", "shift_jis"} # {}
PrefersCP932ChardetOnly(c, n) == c = "cp932"

\* line 102, on the lowercased labels
PrefersCP932(c, n) == "cp932" \in {c, n}

\* line 105: the arguments of the ValueError
ValueErrorArgs(path) == <<"unsupported char code, file:", path>>

----------------------------------------------------------------------------
(* Inputs *)

MaxLen == 4
MaxDigits == 2
MaxName == 2
MaxRows == 3

SeqsUpTo(S, n) == UNION {[1..k -> S] : k \in 0..n}

RECURSIVE Flatten(_)
Flatten(ss) == IF ss = <<>> THEN <<>> ELSE Head(ss) \o Flatten(Tail(ss))

LineChars == {CR, LF, "A"}

DigitInputs == {"1", "Z3", BAR}
NameInputs == {"SATO1", "SATO2"}
Prefixes == {<<>>, <<"SATO1">>}
Markers == {<<>>, <<BAN>>}
Suffixes == {<<>>, <<"GI", "IN">>, <<"SA", "N">>, <<"KUN">>, <<"KU", "N">>}

FilePaths == {"res/higashiomi.html", "res/otsu.html"}

\* What precedes the first roster row: a header line, a header line after a
\* preamble that holds a row of its own, or a document without the keyword.
Heads == {<<"SHUTSU", "SEKI", "GI", "IN">>,
          <<"1", BAN, "A", LF, "SHUTSU", "SEKI">>,
          <<"GI", "IN">>}

RowPool == {<<"1", BAN, "A">>,
            <<"1", BAN, "A", "2", BAN, "B">>,
            <<"1", BAN, "A", ZSP, "2", BAN, "B">>,
            <<BAN, "A">>,
            <<BAN, BAN, "A">>,
            <<"1", BAN, BAN>>,
            <<"1", BAN, "2", BAN, "3", BAN>>,
            <<ZSP, "HBAR", "FDASH">>,
            <<"A">>,
            <<"<", "b", "r", ">">>}

\* the document: the head, then each row on a line of its own
RECURSIVE JoinRows(_)
JoinRows(rs) == IF rs = <<>> THEN <<>> ELSE <<LF>> \o Head(rs) \o JoinRows(Tail(rs))

----------------------------------------------------------------------------
(* State *)

NoRecord == [number |-> <<>>, name |-> <<>>]

linesVars == <<lines, once, twice>>
personVars == <<person_string, record>>
parseVars == <<html_string, rows, idx, member_list, result>>
encVars == <<chardet_label, nkf_label, file_path, ret>>

LinesIdle == lines = <<>> /\ once = <<>> /\ twice = <<>>
PersonIdle == person_string = <<>> /\ record = NoRecord
ParseIdle == html_string = <<>> /\ rows = <<>> /\ idx = 1 /\ member_list = <<>> /\ result = <<>>
EncIdle == chardet_label = "" /\ nkf_label = "" /\ file_path = "" /\ ret = ""
NoFailure == exc = <<>> /\ error = "" /\ stderr = <<>>

----------------------------------------------------------------------------
(* replace_empty_line applied once and again *)

InitLines ==
    /\ pc = "lines"
    /\ lines \in SeqsUpTo(LineChars, MaxLen)
    /\ once = <<>> /\ twice = <<>>
    /\ PersonIdle /\ ParseIdle /\ EncIdle /\ NoFailure

ApplyOnce ==
    /\ pc = "lines"
    /\ once' = replace_empty_line(lines)
    /\ pc' = "once"
    /\ UNCHANGED <<lines, twice, personVars, parseVars, encVars, exc, error, stderr>>

ApplyTwice ==
    /\ pc = "once"
    /\ twice' = replace_empty_line(once)
    /\ pc' = "twice"
    /\ UNCHANGED <<lines, once, personVars, parseVars, encVars, exc, error, stderr>>

NextLines == ApplyOnce \/ ApplyTwice

SpecLines == InitLines /\ [][NextLines]_vars

----------------------------------------------------------------------------
(* remove_number_honorific on one string *)

InitPerson ==
    /\ pc = "person"
    /\ \E pre \in Prefixes, ds \in SeqsUpTo(DigitInputs, MaxDigits), mk \in Markers,
          nm \in SeqsUpTo(NameInputs, MaxName), sf \in Suffixes :
          person_string = pre \o ds \o mk \o nm \o sf
    /\ record = NoRecord
    /\ LinesIdle /\ ParseIdle /\ EncIdle /\ NoFailure

\* lines 28-37
PersonReturn ==
    /\ pc = "person"
    /\ HasNumberMarker(person_string)
    /\ record' = remove_number_honorific(person_string)
    /\ pc' = "returned"
    /\ UNCHANGED <<person_string, linesVars, parseVars, encVars, exc, error, stderr>>

\* line 29 with re_res = None
PersonNoMatch ==
    /\ pc = "person"
    /\ ~HasNumberMarker(person_string)
    /\ error' = "AttributeError"
    /\ pc' = "raised"
    /\ UNCHANGED <<person_string, record, linesVars, parseVars, encVars, exc, stderr>>

NextPerson == PersonReturn \/ PersonNoMatch

SpecPerson == InitPerson /\ [][NextPerson]_vars

----------------------------------------------------------------------------
(* parse on one document *)

InitParse ==
    /\ pc = "parse"
    /\ \E hd \in Heads, rs \in SeqsUpTo(RowPool, MaxRows) :
          html_string = hd \o JoinRows(rs)
    /\ rows = <<>> /\ idx = 1 /\ member_list = <<>> /\ result = <<>>
    /\ LinesIdle /\ PersonIdle /\ EncIdle /\ NoFailure

\* lines 50-59: reformat, cut at the header keyword, split, drop the header line
ParseRows ==
    /\ pc = "parse"
    /\ HasHeader(Reformat(html_string))
    /\ rows' = Tail(SplitLF(FromHeader(Reformat(html_string))))
    /\ idx' = 1
    /\ pc' = "loop"
    /\ UNCHANGED <<html_string, member_list, result, linesVars, personVars, encVars,
                   exc, error, stderr>>

\* line 56 with re_res = None
ParseNoHeader ==
    /\ pc = "parse"
    /\ ~HasHeader(Reformat(html_string))
    /\ error' = "AttributeError"
    /\ pc' = "raised"
    /\ UNCHANGED <<parseVars, linesVars, personVars, encVars, exc, stderr>>

\* lines 60-61: break
RowBreak ==
    /\ pc = "loop" /\ idx <= Len(rows)
    /\ Halts(rows[idx])
    /\ pc' = "map"
    /\ UNCHANGED <<parseVars, linesVars, personVars, encVars, exc, error, stderr>>

\* lines 64-67
RowTwo ==
    /\ pc = "loop" /\ idx <= Len(rows)
    /\ ~Halts(rows[idx])
    /\ ban_count(rows[idx]) = 2
    /\ member_list' = member_list \o SplitRow(rows[idx])
    /\ idx' = idx + 1
    /\ UNCHANGED <<pc, html_string, rows, result, linesVars, personVars, encVars,
                   exc, error, stderr>>

\* lines 68-69
RowOne ==
    /\ pc = "loop" /\ idx <= Len(rows)
    /\ ~Halts(rows[idx])
    /\ ban_count(rows[idx]) = 1
    /\ member_list' = Append(member_list, rows[idx])
    /\ idx' = idx + 1
    /\ UNCHANGED <<pc, html_string, rows, result, linesVars, personVars, encVars,
                   exc, error, stderr>>

\* Variant of lines 70-72: the unsupported row ends the iteration.
RowManyBreaks ==
    /\ pc = "loop" /\ idx <= Len(rows)
    /\ ~Halts(rows[idx])
    /\ ban_count(rows[idx]) \notin {1, 2}
    /\ stderr' = Append(stderr, [kind |-> "ban count", count |-> ban_count(rows[idx])])
    /\ pc' = "map"
    /\ UNCHANGED <<parseVars, linesVars, personVars, encVars, exc, error>>

\* lines 70-72: the count is written to sys.stderr and the loop goes on
RowMany ==
    /\ pc = "loop" /\ idx <= Len(rows)
    /\ ~Halts(rows[idx])
    /\ ban_count(rows[idx]) \notin {1, 2}
    /\ stderr' = Append(stderr, [kind |-> "ban count", count |-> ban_count(rows[idx])])
    /\ idx' = idx + 1
    /\ UNCHANGED <<pc, html_string, rows, member_list, result, linesVars, personVars,
                   encVars, exc, error>>

\* line 59: the rows are exhausted
RowsEnd ==
    /\ pc = "loop" /\ idx > Len(rows)
    /\ pc' = "map"
    /\ UNCHANGED <<parseVars, linesVars, personVars, encVars, exc, error, stderr>>

\* lines 74-76: every fragment has a number-marker match
MapReturn ==
    /\ pc = "map"
    /\ \A i \in 1..Len(member_list) : HasNumberMarker(StripSpaces(member_list[i]))
    /\ result' = [i \in 1..Len(member_list) |->
                     remove_number_honorific(StripSpaces(member_list[i]))]
    /\ pc' = "returned"
    /\ UNCHANGED <<html_string, rows, idx, member_list, linesVars, personVars, encVars,
                   exc, error, stderr>>

\* lines 74-75: a fragment without a match makes line 29 raise
MapNoMatch ==
    /\ pc = "map"
    /\ \E i \in 1..Len(member_list) : ~HasNumberMarker(StripSpaces(member_list[i]))
    /\ error' = "AttributeError"
    /\ pc' = "raised"
    /\ UNCHANGED <<parseVars, linesVars, personVars, encVars, exc, stderr>>

NextParse ==
    \/ ParseRows \/ ParseNoHeader
    \/ RowBreak \/ RowTwo \/ RowOne \/ RowMany \/ RowsEnd
    \/ MapReturn \/ MapNoMatch

SpecParse == InitParse /\ [][NextParse]_vars

----------------------------------------------------------------------------
(* det_encoding on one file *)

InitEnc ==
    /\ pc = "det_encoding"
    /\ chardet_label \in ChardetLabels
    /\ nkf_label \in NkfLabels
    /\ file_path \in FilePaths
    /\ ret = ""
    /\ LinesIdle /\ PersonIdle /\ ParseIdle /\ NoFailure

\* line 93 with detector.result['encoding'] = None
DetNone ==
    /\ pc = "det_encoding"
    /\ chardet_label = None
    /\ error' = "AttributeError"
    /\ pc' = "raised"
    /\ UNCHANGED <<encVars, linesVars, personVars, parseVars, exc, stderr>>

\* lines 100, 106
DetAgree ==
    /\ pc = "det_encoding"
    /\ chardet_label # None
    /\ Lower(chardet_label) = Lower(nkf_label)
    /\ ret' = Lower(chardet_label)
    /\ pc' = "returned"
    /\ UNCHANGED <<chardet_label, nkf_label, file_path, linesVars, personVars,
                   parseVars, exc, error, stderr>>

\* lines 100-103
DetPreferCP932 ==
    /\ pc = "det_encoding"
    /\ chardet_label # None
    /\ Lower(chardet_label) # Lower(nkf_label)
    /\ PrefersCP932(Lower(chardet_label), Lower(nkf_label))
    /\ stderr' = Append(stderr, ConflictWarning(Lower(chardet_label), Lower(nkf_label)))
    /\ ret' = "CP932"
    /\ pc' = "returned"
    /\ UNCHANGED <<chardet_label, nkf_label, file_path, linesVars, personVars,
                   parseVars, exc, error>>

\* lines 100-105
DetUnsupported ==
    /\ pc = "det_encoding"
    /\ chardet_label # None
    /\ Lower(chardet_label) # Lower(nkf_label)
    /\ ~PrefersCP932(Lower(chardet_label), Lower(nkf_label))
    /\ stderr' = Append(stderr, ConflictWarning(Lower(chardet_label), Lower(nkf_label)))
    /\ error' = "ValueError"
    /\ exc' = ValueErrorArgs(file_path)
    /\ pc' = "raised"
    /\ UNCHANGED <<encVars, linesVars, personVars, parseVars>>

NextEnc == DetNone \/ DetAgree \/ DetPreferCP932 \/ DetUnsupported

SpecEnc == InitEnc /\ [][NextEnc]_vars

----------------------------------------------------------------------------
(* Properties *)

\* C1: blank-line collapsing is idempotent: replace_empty_line applied to its
\* own result returns that result, for every string over CR, LF and a letter.
C1_Idempotent == pc = "twice" => twice = once

\* C2: a fragment made of a full-width digit run, the marker glyph, a name and
\* the hiragana suffix KU N yields the half-width number and the name without
\* the suffix; Z3 BAN SATO1 SATO2 KU N yields number 3 and name SATO1 SATO2.
C2_InformalSuffixRemoved ==
    \A ds \in SeqsUpTo({"Z3"}, MaxDigits) \ {<<>>}, nm \in SeqsUpTo(NameInputs, MaxName) \ {<<>>} :
        (pc \in {"returned", "raised"} /\ person_string = ds \o <<BAN>> \o nm \o <<"KU", "N">>)
            => /\ pc = "returned"
               /\ record = [number |-> [i \in 1..Len(ds) |-> "3"], name |-> nm]

\* The position in rs where the iteration is to stop: the first row without
\* the marker glyph or made of optional full-width spaces and then dashes,
\* Len(rs) + 1 when there is none.
NoMarker(row) == \A i \in 1..Len(row) : row[i] # BAN
DashLine(row) ==
    \E k \in 0..(Len(row) - 1) :
        /\ \A i \in 1..k : row[i] = ZSP
        /\ \A i \in (k + 1)..Len(row) : row[i] \in {"HBAR", "FDASH"}
HaltPoint(rs) ==
    IF \E i \in 1..Len(rs) : NoMarker(rs[i]) \/ DashLine(rs[i])
    THEN CHOOSE i \in 1..Len(rs) :
             /\ NoMarker(rs[i]) \/ DashLine(rs[i])
             /\ \A j \in 1..(i - 1) : ~(NoMarker(rs[j]) \/ DashLine(rs[j]))
    ELSE Len(rs) + 1

Markers_in(row) == Cardinality({i \in 1..Len(row) : row[i] = BAN})

\* The text of the first n rows that hold one or two marker glyphs, in order.
RECURSIVE KeptText(_, _)
KeptText(rs, n) ==
    IF n = 0 THEN <<>>
    ELSE KeptText(rs, n - 1) \o (IF Markers_in(rs[n]) \in {1, 2} THEN rs[n] ELSE <<>>)

\* The number of fragments the first n rows are to contribute.
RECURSIVE FragmentCount(_, _)
FragmentCount(rs, n) ==
    IF n = 0 THEN 0
    ELSE FragmentCount(rs, n - 1) + (IF Markers_in(rs[n]) \in {1, 2} THEN Markers_in(rs[n]) ELSE 0)

\* The diagnostics the first n rows are to produce: one per row with three or
\* more marker glyphs, naming the count.
RECURSIVE ManyDiagnostics(_, _)
ManyDiagnostics(rs, n) ==
    IF n = 0 THEN <<>>
    ELSE ManyDiagnostics(rs, n - 1) \o
         (IF Markers_in(rs[n]) >= 3
          THEN <<[kind |-> "ban count", count |-> Markers_in(rs[n])]>>
          ELSE <<>>)

\* C3: a row with exactly two marker glyphs contributes exactly two fragments,
\* left then right, whose concatenation is the row, whatever the split index.
C3_SplitIsPartition ==
    [][(pc = "loop" /\ idx <= Len(rows) /\ Markers_in(rows[idx]) = 2)
          => /\ Len(member_list') = Len(member_list) + 2
             /\ SubSeq(member_list', 1, Len(member_list)) = member_list
             /\ member_list'[Len(member_list) + 1] \o member_list'[Len(member_list) + 2]
                    = rows[idx]
             /\ idx' = idx + 1]_vars

\* C3 witness: the rows with the second marker glyph at index 2 (split index
\* 0) and at index 1 (split index -1) have both been split.
C3_Witness ==
    /\ pc = "loop" /\ idx = 3
    /\ rows[1] = <<"1", BAN, BAN>> /\ rows[2] = <<BAN, BAN, "A">>
    /\ member_list = <<<<>>, <<"1", BAN, BAN>>, <<BAN, BAN>>, <<"A">>>>

\* A name-fragment with a recognizable number marker: a digit run, the marker
\* glyph, a name.
IsNameFragment(f) ==
    \E k \in 1..(Len(f) - 2) :
        /\ \A i \in 1..k : f[i] \in AsciiDigits \cup ZenDigits
        /\ f[k + 1] = BAN
        /\ \A i \in (k + 2)..Len(f) : f[i] \notin NumberClass \cup Spaces \cup {BAN}
RecognizableRow(row) ==
    \/ IsNameFragment(row)
    \/ \E c \in 1..(Len(row) - 1) :
          /\ IsNameFragment(SubSeq(row, 1, c))
          /\ IsNameFragment(StripSpaces(SubSeq(row, c + 1, Len(row))))

\* C4: when every row read held one or two name-fragments with a recognizable
\* number marker, every record returned has a non-empty number and name.
C4_RecordsNonEmpty ==
    (pc = "returned" /\ \A i \in 1..(idx - 1) : RecognizableRow(rows[i]))
        => \A i \in 1..Len(result) : result[i].number # <<>> /\ result[i].name # <<>>

\* C5: the number of a returned record holds ASCII half-width digits only.
C5_NumberIsAsciiDigits ==
    pc = "returned" => \A i \in 1..Len(record.number) : record.number[i] \in AsciiDigits

\* C8: the iteration never passes the first row without a marker glyph or the
\* first dash row: the fragments come from the rows before it only, and every
\* record from a fragment.
C8_NothingPastHalt ==
    /\ idx <= HaltPoint(rows)
    /\ Flatten(member_list) = KeptText(rows, idx - 1)
    /\ Len(result) <= Len(member_list)

\* C8 witness: parse has returned the record of the row before a halting row
\* and none for the valid row after it.
C8_Witness ==
    /\ pc = "returned" /\ Len(rows) = 3
    /\ rows[1] = <<"1", BAN, "A">>
    /\ rows[2] = <<ZSP, "HBAR", "FDASH">>
    /\ rows[3] = <<"1", BAN, "A">>
    /\ result = <<[number |-> <<"1">>, name |-> <<"A">>]>>

\* C9: a row with three or more marker glyphs adds no fragment and exactly one
\* diagnostic naming the count, and the iteration goes on: it ends only at the
\* halting row or after the last row, and the rows with one or two glyphs
\* contribute their fragments in order, each returned as a record.
C9_ManyRowSkipped ==
    /\ stderr = ManyDiagnostics(rows, idx - 1)
    /\ Len(member_list) = FragmentCount(rows, idx - 1)
    /\ Flatten(member_list) = KeptText(rows, idx - 1)
    /\ pc \in {"map", "returned"} => idx = HaltPoint(rows)
    /\ pc = "returned" => Len(result) = FragmentCount(rows, HaltPoint(rows) - 1)

\* C9 witness: parse has returned the records of the rows around a row with
\* three marker glyphs, with one diagnostic.
C9_Witness ==
    /\ pc = "returned" /\ Len(rows) = 3
    /\ rows[1] = <<"1", BAN, "A">>
    /\ Markers_in(rows[2]) = 3
    /\ rows[3] = <<"1", BAN, "A", ZSP, "2", BAN, "B">>
    /\ stderr = <<[kind |-> "ban count", count |-> 3]>>
    /\ result = <<[number |-> <<"1">>, name |-> <<"A">>],
                  [number |-> <<"1">>, name |-> <<"A">>],
                  [number |-> <<"2">>, name |-> <<"B">>]>>

\* C10: every fragment handed to remove_number_honorific has a number-marker
\* match, so parse never fails in it.
C10_FragmentsHaveMarker ==
    /\ pc = "map" =>
          \A i \in 1..Len(member_list) :
              \E a \in 1..Len(member_list[i]), b \in 1..Len(member_list[i]) :
                  /\ a < b /\ member_list[i][b] = BAN
                  /\ \A k \in a..(b - 1) : member_list[i][k] \in AsciiDigits \cup ZenDigits
    /\ ~(pc = "raised" /\ member_list # <<>>)

LegacyLabels == {"cp932", "shift_jis"}
Disagree == pc \in {"returned", "raised"} /\ chardet_label # None
            /\ Lower(chardet_label) # Lower(nkf_label)

C7_ReturnsLegacyLabel ==
    (Disagree /\ {Lower(chardet_label), Lower(nkf_label)} \cap LegacyLabels # {})
        => /\ pc = "returned"
           /\ ret \in {Lower(chardet_label), Lower(nkf_label)} \cap LegacyLabels
           /\ stderr = <<[kind |-> "conflict char_codes",
                          first |-> Lower(chardet_label), second |-> Lower(nkf_label)]>>

\* C7 amended: when the lowercased labels differ and either is cp932,
\* det_encoding returns the upper-case string CP932 after a warning that
\* lists both lowercased labels; shift_jis without cp932 is not preferred and
\* the call fails.
C7_ReturnsUpperCP932 ==
    /\ (Disagree /\ "cp932" \in {Lower(chardet_label), Lower(nkf_label)})
          => /\ pc = "returned" /\ ret = "CP932" /\ error = ""
             /\ stderr = <<[kind |-> "conflict char_codes",
                            first |-> Lower(chardet_label), second |-> Lower(nkf_label)]>>
    /\ (Disagree /\ "cp932" \notin {Lower(chardet_label), Lower(nkf_label)}
                 /\ "shift_jis" \in {Lower(chardet_label), Lower(nkf_label)})
          => pc = "raised" /\ ret = ""

\* C7 witness: cp932 reported by the second detector only has been returned.
C7_Witness ==
    /\ pc = "returned" /\ ret = "CP932"
    /\ chardet_label = "SHIFT_JIS" /\ nkf_label = "CP932"
    /\ Len(stderr) = 1

====
